---- MODULE Spec2Model ----
(***************************************************************************)
(* Model of the reconciliation engine of src/app.py (Auditoria Master de   *)
(* Saldos): the reference normaliser normalizar_referencia_base, the       *)
(* ledger builder procesar_contpaq_engine, the reconciliation              *)
(* analizar_saldos and the per-reference buckets built by the page script. *)
(*                                                                         *)
(* Text cells are sequences of one-character strings, so that the regular  *)
(* expressions of the source are computed character by character.  A       *)
(* missing cell (pandas NaN) and Python's None are one-element sequences   *)
(* holding a token that is no character.  Amounts are integers, in units   *)
(* of 0.005.  The columns that only feed the display (cliente,             *)
(* fecha_origen, desc_linea, ajustes_sospechosos) are left out.            *)
(***************************************************************************)
EXTENDS Integers, Sequences, FiniteSets, TLC

VARIABLES
    ref,              \* the argument of normalizar_referencia_base
    clave,            \* its return value (None when there is no reference)
    referencia_norm,  \* the column value after fillna(sentinel)
    pcn,              \* position of the normaliser pipeline
    raw,              \* the uploaded table: a sequence of rows of cells
    movs,             \* procesar_contpaq_engine: the postings
    resumen,          \* procesar_contpaq_engine: one row per (code, name)
    df_audit,         \* analizar_saldos: the reconciliation rows
    resumen_referencias,  \* one row per (code, reference key)
    facturas_pend,    \* pending invoices
    pagos_huerfanos,  \* orphan payments
    pagos_excedentes, \* overpaid invoices
    movs_sin_referencia,  \* postings whose key is the sentinel
    pc                \* position of the page script

varsNorm == <<ref, clave, referencia_norm, pcn>>
varsEngine == <<raw, movs, resumen, df_audit, resumen_referencias,
                facturas_pend, pagos_huerfanos, pagos_excedentes,
                movs_sin_referencia, pc>>
vars == <<ref, clave, referencia_norm, pcn, raw, movs, resumen, df_audit,
          resumen_referencias, facturas_pend, pagos_huerfanos,
          pagos_excedentes, movs_sin_referencia, pc>>

\* ------------------------------------------------------------------ bounds
MaxLen == 5

\* ------------------------------------------------------- characters, text
NaN == <<"<NaN>">>
None == <<"<None>">>
SIN_REFERENCIA == <<"<SIN REFERENCIA CAPTURADA>">>

Digitos == {"0", "1", "2", "3", "4", "5", "6", "7", "8", "9"}
Espacios == {" "}

Minusculas == <<"a","b","c","d","e","f","g","h","i","j","k","l","m",
                "n","o","p","q","r","s","t","u","v","w","x","y","z">>
Mayusculas == <<"A","B","C","D","E","F","G","H","I","J","K","L","M",
                "N","O","P","Q","R","S","T","U","V","W","X","Y","Z">>

isna(x) == x = NaN \/ x = None

UpperChar(c) ==
    IF \E i \in DOMAIN Minusculas : Minusculas[i] = c
    THEN Mayusculas[CHOOSE i \in DOMAIN Minusculas : Minusculas[i] = c]
    ELSE c

upper(s) == [i \in DOMAIN s |-> UpperChar(s[i])]

strip(s) ==
    LET keep == {i \in DOMAIN s : s[i] \notin Espacios}
    IN  IF keep = {} THEN <<>>
        ELSE LET lo == CHOOSE i \in keep : \A j \in keep : i <= j
                 hi == CHOOSE i \in keep : \A j \in keep : j <= i
             IN  SubSeq(s, lo, hi)

\* index of the first position >= j of s that is no whitespace (\s*)
RECURSIVE SkipEspacios(_, _)
SkipEspacios(s, j) ==
    IF j <= Len(s) /\ s[j] \in Espacios THEN SkipEspacios(s, j + 1) ELSE j

\* index after the longest digit run of s that starts at k (\d+, greedy)
RECURSIVE FinDigitos(_, _)
FinDigitos(s, k) ==
    IF k <= Len(s) /\ s[k] \in Digitos THEN FinDigitos(s, k + 1) ELSE k

\* F\.?\s*(\d+) anchored at i: the start of group 1, or 0 without a match
MatchPagoEn(s, i) ==
    IF s[i] # "F" THEN 0
    ELSE LET j == IF i + 1 <= Len(s) /\ s[i + 1] = "." THEN i + 2 ELSE i + 1
             k == SkipEspacios(s, j)
         IN  IF k <= Len(s) /\ s[k] \in Digitos THEN k ELSE 0

\* A\s*-\s*(\d+) anchored at i: the start of group 1, or 0 without a match
MatchFacEn(s, i) ==
    IF s[i] # "A" THEN 0
    ELSE LET j == SkipEspacios(s, i + 1)
         IN  IF j <= Len(s) /\ s[j] = "-"
             THEN LET k == SkipEspacios(s, j + 1)
                  IN  IF k <= Len(s) /\ s[k] \in Digitos THEN k ELSE 0
             ELSE 0

\* re.search: group 1 of the leftmost match, <<>> when nothing matches
RECURSIVE SearchPago(_, _)
SearchPago(s, i) ==
    IF i > Len(s) THEN <<>>
    ELSE IF MatchPagoEn(s, i) # 0
         THEN SubSeq(s, MatchPagoEn(s, i), FinDigitos(s, MatchPagoEn(s, i)) - 1)
         ELSE SearchPago(s, i + 1)

RECURSIVE SearchFac(_, _)
SearchFac(s, i) ==
    IF i > Len(s) THEN <<>>
    ELSE IF MatchFacEn(s, i) # 0
         THEN SubSeq(s, MatchFacEn(s, i), FinDigitos(s, MatchFacEn(s, i)) - 1)
         ELSE SearchFac(s, i + 1)

\* re.findall(r'\d+', s): the digit runs of s from position i on, in order
RECURSIVE FindallDigitos(_, _)
FindallDigitos(s, i) ==
    IF i > Len(s) THEN <<>>
    ELSE IF s[i] \in Digitos
         THEN <<SubSeq(s, i, FinDigitos(s, i) - 1)>>
              \o FindallDigitos(s, FinDigitos(s, i))
         ELSE FindallDigitos(s, i + 1)

NormalizarPrioridadInvertida(r) ==
    IF isna(r) \/ strip(r) = <<>> THEN None
    ELSE LET s == upper(strip(r))
             m_pago == SearchPago(s, 1)
             m_fac == SearchFac(s, 1)
             m_num == FindallDigitos(s, 1)
         IN  IF m_fac # <<>> THEN m_fac
             ELSE IF m_pago # <<>> THEN m_pago
             ELSE IF m_num # <<>> THEN m_num[Len(m_num)]
             ELSE s

normalizar_referencia_base(r) ==
    IF isna(r) \/ strip(r) = <<>> THEN None
    ELSE LET s == upper(strip(r))
             m_pago == SearchPago(s, 1)
             m_fac == SearchFac(s, 1)
             m_num == FindallDigitos(s, 1)
         IN  IF m_pago # <<>> THEN m_pago
             ELSE IF m_fac # <<>> THEN m_fac
             ELSE IF m_num # <<>> THEN m_num[Len(m_num)]
             ELSE s

fillna(x, v) == IF isna(x) THEN v ELSE x

\* ------------------------------------------- inputs of the normaliser
Alfabeto == {"f", "A", ".", "-", " ", "1", "2"}

RECURSIVE Cadenas(_)
Cadenas(n) ==
    IF n = 0 THEN {<<>>}
    ELSE LET menores == Cadenas(n - 1)
         IN  menores \cup {Append(s, c) : s \in {t \in menores : Len(t) = n - 1},
                                          c \in Alfabeto}

FacturaEjemplo ==
    <<"F","a","c","t","u","r","a"," ","d","e"," ","C","l","i","e","n","t","e",
      " ","A","-","2","7","9","6">>
PagoEjemplo ==
    <<"A","p","."," ","P","a","g","o"," ","C","t","e","."," ","1","0","7","8",
      " ","F","."," ","2","7","9","6">>
MiscEjemplo == <<"M","i","s","c"," ","5","5">>

Marcadores ==
    { <<"n","a","n">>, <<"N","a","N">>, <<"N","A","N">>,
      <<"n","o","n","e">>, <<"N","o","n","e">>, <<"N","O","N","E">>,
      <<"n","u","l","l">>, <<"N","u","l","l">>, <<"N","U","L","L">>,
      <<" ","n","o","n","e"," ">> }

\* the texts the reader (read_excel, read_csv) takes for a missing value,
\* among the texts of the model
na_values ==
    { <<>>, <<"n","a","n">>, <<"N","a","N">>, <<"n","u","l","l">>,
      <<"N","U","L","L">>, <<"N","o","n","e">> }

\* cargar_archivo_robusto: a cell of the file as it stands in the table
cargar_celda(texto) == IF texto \in na_values THEN NaN ELSE texto

Referencias ==
    { cargar_celda(texto) :
        texto \in Cadenas(MaxLen) \cup {FacturaEjemplo, PagoEjemplo, MiscEjemplo}
                     \cup Marcadores }

\* ------------------------------------------------------- cells of the table
\* An amount cell is a number, a text that is no number, or missing.
Num(v) == [t |-> "num", v |-> v]
Texto == [t |-> "texto", v |-> 0]
Vacio == [t |-> "nan", v |-> 0]

\* A float of pandas: a value or NaN.
Float(v) == [nan |-> FALSE, v |-> v]
FloatNaN == [nan |-> TRUE, v |-> 0]

\* pd.to_numeric(cell, errors='coerce')
to_numeric(c) == IF c.t = "num" THEN Float(c.v) ELSE FloatNaN

\* .fillna(0) of a float column
fillna0(f) == IF f.nan THEN 0 ELSE f.v

\* raw.astype(str): a missing cell becomes the text "nan"
astype_str(c) == IF isna(c) THEN <<"n", "a", "n">> ELSE c

\* amounts are counted in units of 0.005; 0.01 and UMBRAL_TOLERANCIA in them
Tol_001 == 2
UMBRAL_TOLERANCIA == 200

\* str.match(r"^\d{3}-\d{3}-\d{3}")
patron_cuenta(s) ==
    /\ Len(s) >= 11
    /\ \A i \in {1, 2, 3, 5, 6, 7, 9, 10, 11} : s[i] \in Digitos
    /\ s[4] = "-" /\ s[8] = "-"

\* str.match(r"^\d{4}-\d{2}-\d{2}")
patron_fecha(s) ==
    /\ Len(s) >= 10
    /\ \A i \in {1, 2, 3, 4, 6, 7, 9, 10} : s[i] \in Digitos
    /\ s[5] = "-" /\ s[8] = "-"

\* str.contains("Saldo Inicial", case=False)
SaldoInicialTxt == <<"S","A","L","D","O"," ","I","N","I","C","I","A","L">>

str_contains(s, pat) ==
    \E i \in 1..(Len(s) - Len(pat) + 1) :
        SubSeq(upper(s), i, i + Len(pat) - 1) = upper(pat)

DigitVal(c) == CHOOSE d \in 0..9 : <<"0","1","2","3","4","5","6","7","8","9">>[d + 1] = c

NaT == [nat |-> TRUE, v |-> 0]

\* pd.to_datetime(text, errors="coerce") on a 'YYYY-MM-DD' text: the day as
\* the number YYYYMMDD, NaT for anything else (days are accepted up to 31)
to_datetime(s) ==
    IF isna(s) \/ Len(s) # 10 \/ ~patron_fecha(s) THEN NaT
    ELSE LET y == 1000 * DigitVal(s[1]) + 100 * DigitVal(s[2])
                  + 10 * DigitVal(s[3]) + DigitVal(s[4])
             m == 10 * DigitVal(s[6]) + DigitVal(s[7])
             d == 10 * DigitVal(s[9]) + DigitVal(s[10])
         IN  IF m \in 1..12 /\ d \in 1..31 /\ y >= 1
             THEN [nat |-> FALSE, v |-> 10000 * y + 100 * m + d]
             ELSE NaT

\* ----------------------------------------- procesar_contpaq_engine
is_cuenta(r) == patron_cuenta(astype_str(r.c0))
is_saldo_ini(r) == str_contains(astype_str(r.c3), SaldoInicialTxt)
is_mov(r) == patron_fecha(astype_str(r.c1))

\* Series.ffill(): a missing value takes the last value seen above it
RECURSIVE ffill(_)
ffill(col) ==
    IF col = <<>> THEN <<>>
    ELSE LET n == Len(col)
             arriba == ffill(SubSeq(col, 1, n - 1))
         IN  Append(arriba,
                    IF ~isna(col[n]) THEN col[n]
                    ELSE IF n = 1 THEN NaN ELSE arriba[n - 1])

\* np.where(is_cuenta, df[0], nan).ffill()
meta_codigo(t) ==
    ffill([i \in DOMAIN t |-> IF is_cuenta(t[i]) THEN t[i].c0 ELSE NaN])

\* np.where(is_cuenta, df[2], nan).ffill()
meta_nombre(t) ==
    ffill([i \in DOMAIN t |-> IF is_cuenta(t[i]) THEN t[i].c2 ELSE NaN])

\* np.where(is_saldo_ini, to_numeric(df[6]), nan)
meta_saldo_inicial_row(t) ==
    [i \in DOMAIN t |-> IF is_saldo_ini(t[i]) THEN to_numeric(t[i].c6)
                        ELSE FloatNaN]

\* dropna(...).set_index("meta_codigo")[...].to_dict(): built top to bottom,
\* a later row of the same code replaces the earlier one
RECURSIVE to_dict(_, _, _)
to_dict(codigos, valores, n) ==
    IF n = 0 THEN [k \in {} |-> 0]
    ELSE LET antes == to_dict(codigos, valores, n - 1)
         IN  IF valores[n].nan THEN antes
             ELSE (codigos[n] :> valores[n].v) @@ antes

saldos_dict(t) == to_dict(meta_codigo(t), meta_saldo_inicial_row(t), Len(t))

\* Series.map(saldos_dict).fillna(0)
map_fillna0(d, k) == IF k \in DOMAIN d THEN d[k] ELSE 0

\* the opening balance carried down from the opening-balance row (a running
\* value: rows above the opening-balance row do not see it)
SaldoInicialArrastrado(t) ==
    LET filas == meta_saldo_inicial_row(t)
    IN  [i \in DOMAIN t |->
            LET vistas == {j \in 1..i : ~filas[j].nan}
            IN  IF vistas = {} THEN 0
                ELSE filas[CHOOSE j \in vistas : \A h \in vistas : h <= j].v]

\* df["meta_saldo_inicial"] = df["meta_codigo"].map(saldos_dict).fillna(0)
meta_saldo_inicial(t) ==
    LET d == saldos_dict(t)
        cod == meta_codigo(t)
    IN  [i \in DOMAIN t |-> map_fillna0(d, cod[i])]

\* movs = df[is_mov] with its renamed and derived columns; idx is the row's
\* index in the table
Movimientos(t) ==
    LET cod == meta_codigo(t)
        nom == meta_nombre(t)
        ini == meta_saldo_inicial(t)
        fila(i) ==
            LET cargos == fillna0(to_numeric(t[i].c4))
                abonos == fillna0(to_numeric(t[i].c5))
            IN  [idx |-> i,
                 meta_codigo |-> cod[i],
                 meta_nombre |-> nom[i],
                 meta_saldo_inicial |-> ini[i],
                 poliza |-> t[i].c0,
                 fecha_raw |-> t[i].c1,
                 concepto |-> t[i].c2,
                 referencia |-> t[i].c3,
                 cargos |-> cargos,
                 abonos |-> abonos,
                 saldo_acumulado |-> fillna0(to_numeric(t[i].c6)),
                 fecha |-> to_datetime(t[i].c1),
                 referencia_norm |->
                     fillna(normalizar_referencia_base(t[i].c3), SIN_REFERENCIA),
                 saldo_neto |-> cargos - abonos]
        RECURSIVE filtra(_)
        filtra(n) ==
            IF n = 0 THEN <<>>
            ELSE IF is_mov(t[n]) THEN Append(filtra(n - 1), fila(n))
                 ELSE filtra(n - 1)
    IN  filtra(Len(t))

\* the value of the first row of a group in table order
AggFirst(g, campo) == g[1][campo]

\* agg "last" of a group: the value of its last row in table order
AggLast(g, campo) == g[Len(g)][campo]

\* agg "sum" of a group
RECURSIVE AggSum(_, _)
AggSum(g, campo) ==
    IF g = <<>> THEN 0
    ELSE AggSum(SubSeq(g, 1, Len(g) - 1), campo) + g[Len(g)][campo]

\* movs.groupby(["meta_codigo", "meta_nombre"]).agg(last) and the mapped
\* opening balance; groupby drops the rows with a missing key
Resumen(t, m) ==
    IF m = <<>> THEN {}
    ELSE LET d == saldos_dict(t)
             claves == {<<m[i].meta_codigo, m[i].meta_nombre>> : i \in DOMAIN m}
             vivas == {k \in claves : ~isna(k[1]) /\ ~isna(k[2])}
         IN  {LET g == SelectSeq(m,
                         LAMBDA x : x.meta_codigo = k[1] /\ x.meta_nombre = k[2])
              IN  [meta_codigo |-> k[1],
                   meta_nombre |-> k[2],
                   saldo_final_aux |-> AggLast(g, "saldo_acumulado"),
                   meta_saldo_inicial |-> map_fillna0(d, k[1])]
              : k \in vivas}

\* procesar_contpaq_engine returns movs and resumen only: the rows that are
\* no postings are in none of its outputs, and its set of phantom rows
\* (rows with money that are no postings) is empty
filas_fantasma == {}

\* ------------------------------------------------------ analizar_saldos
Abs(x) == IF x < 0 THEN -x ELSE x

clasificar(diferencia) ==
    IF Abs(diferencia) <= UMBRAL_TOLERANCIA THEN "OK"
    ELSE "Diferencia No Explicada"

\* vivas.groupby(["meta_codigo"]).agg(sum): a function of the codes present
saldo_facturas(m) ==
    LET vivas == SelectSeq(m, LAMBDA x : ~isna(x.referencia_norm))
        codigos == {vivas[i].meta_codigo : i \in DOMAIN vivas} \ {NaN}
    IN  [c \in codigos |->
            AggSum(SelectSeq(vivas, LAMBDA x : x.meta_codigo = c), "saldo_neto")]

\* resumen.merge(saldo_facturas, on="meta_codigo", how="left").fillna(0)
analizar_saldos(m, res) ==
    LET sf == saldo_facturas(m)
    IN  {LET netos == IF r.meta_codigo \in DOMAIN sf THEN sf[r.meta_codigo] ELSE 0
             calculado == r.meta_saldo_inicial + netos
             diferencia == r.saldo_final_aux - calculado
         IN  [meta_codigo |-> r.meta_codigo,
              meta_nombre |-> r.meta_nombre,
              saldo_final_aux |-> r.saldo_final_aux,
              meta_saldo_inicial |-> r.meta_saldo_inicial,
              movimientos_netos |-> netos,
              saldo_calculado |-> calculado,
              diferencia |-> diferencia,
              estado |-> clasificar(diferencia)]
         : r \in res}

\* ------------------------------------- per-reference buckets (page script)
\* movs_validos.groupby(["meta_codigo", "referencia_norm"]).agg(...)
ResumenReferencias(m) ==
    LET validos == SelectSeq(m, LAMBDA x : ~isna(x.referencia_norm))
        claves == {<<validos[i].meta_codigo, validos[i].referencia_norm>>
                     : i \in DOMAIN validos}
        vivas == {k \in claves : ~isna(k[1])}
    IN  {LET g == SelectSeq(validos,
                    LAMBDA x : x.meta_codigo = k[1] /\ x.referencia_norm = k[2])
         IN  [meta_codigo |-> k[1],
              referencia_norm |-> k[2],
              total_cargos |-> AggSum(g, "cargos"),
              total_abonos |-> AggSum(g, "abonos"),
              saldo_pendiente |-> AggSum(g, "saldo_neto")]
         : k \in vivas}

EsPendienteSinTolerancia(r) == r.total_cargos > 0 /\ r.saldo_pendiente > 0

EsPendiente(r) == r.total_cargos > 0 /\ r.saldo_pendiente > Tol_001

EsHuerfano(r) ==
    /\ r.total_cargos = 0
    /\ r.total_abonos > 0
    /\ r.referencia_norm # SIN_REFERENCIA

EsExcedente(r) == r.total_cargos > 0 /\ r.saldo_pendiente < -Tol_001

\* ------------------------------------------------- inputs of the engine
MaxFilas == 4
MaxMovs == 2

Cod1 == <<"1","0","4","-","0","0","1","-","0","0","1">>
Cod2 == <<"1","0","4","-","0","0","1","-","0","0","2">>
Nombre1 == <<"C","L","I","E","N","T","E","S">>
Nombre2 == <<"V","A","R","I","O","S">>
Fecha1 == <<"2","0","2","4","-","0","1","-","0","5">>
Fecha2 == <<"2","0","2","4","-","0","1","-","2","0">>
RefFactura == <<"A","-","1">>
RefPago == <<"f","."," ","1">>
RefSaldoInicial == <<"S","a","l","d","o"," ","I","n","i","c","i","a","l">>
Poliza == <<"I","g"," ","7">>

Fila(c0, c1, c2, c3, c4, c5, c6) ==
    [c0 |-> c0, c1 |-> c1, c2 |-> c2, c3 |-> c3, c4 |-> c4, c5 |-> c5, c6 |-> c6]

FilaCuenta(codigo, nombre) == Fila(codigo, NaN, nombre, NaN, Vacio, Vacio, Vacio)
FilaSaldoInicial(saldo) == Fila(NaN, NaN, NaN, RefSaldoInicial, Vacio, Vacio, saldo)
FilaMov(fecha, referencia, cargo, abono, saldo) ==
    Fila(Poliza, fecha, Nombre2, referencia, cargo, abono, saldo)

\* the rows of the row streams: account headers (one with an empty name
\* cell), opening-balance rows (one non-numeric), postings, and a row with
\* money and no date
Filas ==
    { FilaCuenta(Cod1, Nombre1), FilaCuenta(Cod1, Nombre2), FilaCuenta(Cod2, NaN),
      FilaSaldoInicial(Num(5)), FilaSaldoInicial(Texto),
      FilaMov(Fecha2, RefFactura, Num(3), Vacio, Num(3)),
      FilaMov(Fecha1, RefPago, Vacio, Num(3), Num(0)),
      FilaMov(Fecha1, NaN, Num(3), Num(0), Num(6)),
      FilaMov(Fecha2, NaN, Texto, Num(1), Num(5)),
      FilaMov(NaN, RefFactura, Num(3), Vacio, Num(9)) }

RECURSIVE Flujos(_, _)
Flujos(S, n) ==
    IF n = 0 THEN {<<>>}
    ELSE LET menores == Flujos(S, n - 1)
         IN  menores \cup {Append(s, f) : s \in {u \in menores : Len(u) = n - 1},
                                          f \in S}

\* postings of one account with every small charge and payment
Montos == {Num(-1), Num(0), Num(1), Num(2), Num(3)}

FilasMonto ==
    { FilaMov(Fecha1, r, c, a, Num(0)) : r \in {NaN, RefFactura}, c \in Montos,
                                         a \in Montos }

\* ------------------------------------------------------------ page script
InitEngine(entradas) ==
    /\ raw \in entradas
    /\ movs = <<>>
    /\ resumen = {}
    /\ df_audit = {}
    /\ resumen_referencias = {}
    /\ facturas_pend = {}
    /\ pagos_huerfanos = {}
    /\ pagos_excedentes = {}
    /\ movs_sin_referencia = <<>>
    /\ pc = "cargado"

NormInactivo ==
    /\ ref = NaN
    /\ clave = None
    /\ referencia_norm = None
    /\ pcn = "inactivo"

EngineInactivo ==
    /\ raw = <<>>
    /\ movs = <<>>
    /\ resumen = {}
    /\ df_audit = {}
    /\ resumen_referencias = {}
    /\ facturas_pend = {}
    /\ pagos_huerfanos = {}
    /\ pagos_excedentes = {}
    /\ movs_sin_referencia = <<>>
    /\ pc = "inactivo"

\* movs, resumen = procesar_contpaq_engine(uploaded_file)
ProcesarContpaqEngine ==
    /\ pc = "cargado"
    /\ movs' = Movimientos(raw)
    /\ resumen' = Resumen(raw, Movimientos(raw))
    /\ pc' = "procesado"
    /\ UNCHANGED <<raw, df_audit, resumen_referencias, facturas_pend,
                   pagos_huerfanos, pagos_excedentes, movs_sin_referencia>>
    /\ UNCHANGED varsNorm

\* df_audit = analizar_saldos(movs, resumen)
AnalizarSaldos ==
    /\ pc = "procesado"
    /\ df_audit' = analizar_saldos(movs, resumen)
    /\ pc' = "analizado"
    /\ UNCHANGED <<raw, movs, resumen, resumen_referencias, facturas_pend,
                   pagos_huerfanos, pagos_excedentes, movs_sin_referencia>>
    /\ UNCHANGED varsNorm

\* the per-reference summary and its three filtered views
ClasificarReferencias ==
    /\ pc = "analizado"
    /\ movs_sin_referencia' =
           SelectSeq(movs, LAMBDA x : x.referencia_norm = SIN_REFERENCIA)
    /\ resumen_referencias' = ResumenReferencias(movs)
    /\ facturas_pend' = {r \in ResumenReferencias(movs) : EsPendiente(r)}
    /\ pagos_huerfanos' = {r \in ResumenReferencias(movs) : EsHuerfano(r)}
    /\ pagos_excedentes' = {r \in ResumenReferencias(movs) : EsExcedente(r)}
    /\ pc' = "clasificado"
    /\ UNCHANGED <<raw, movs, resumen, df_audit>>
    /\ UNCHANGED varsNorm

Init == InitEngine(Flujos(Filas, MaxFilas)) /\ NormInactivo

Next == ProcesarContpaqEngine \/ AnalizarSaldos \/ ClasificarReferencias

Spec == Init /\ [][Next]_vars

\* one account header followed by postings of every small amount
InitClasif ==
    /\ InitEngine({<<FilaCuenta(Cod1, Nombre1)>> \o s : s \in Flujos(FilasMonto, MaxMovs)})
    /\ NormInactivo

SpecClasif == InitClasif /\ [][Next]_vars

\* ------------------------------------------------ normaliser pipeline
InitNorm ==
    /\ ref \in Referencias
    /\ clave = None
    /\ referencia_norm = None
    /\ pcn = "entrada"
    /\ EngineInactivo

\* movs["referencia"].apply(normalizar_referencia_base)
AplicarNormalizar ==
    /\ pcn = "entrada"
    /\ clave' = normalizar_referencia_base(ref)
    /\ pcn' = "normalizada"
    /\ UNCHANGED <<ref, referencia_norm>>
    /\ UNCHANGED varsEngine

\* movs["referencia_norm"].fillna(sentinel)
RellenarCentinela ==
    /\ pcn = "normalizada"
    /\ referencia_norm' = fillna(clave, SIN_REFERENCIA)
    /\ pcn' = "rellenada"
    /\ UNCHANGED <<ref, clave>>
    /\ UNCHANGED varsEngine

NextNorm == AplicarNormalizar \/ RellenarCentinela

SpecNorm == InitNorm /\ [][NextNorm]_vars

\* ================================================================ claims
\* the account code of row i of the table: the code cell of the nearest
\* header row at or above it
EsEncabezadoDe(h, i) ==
    /\ h \in 1..i
    /\ is_cuenta(raw[h])
    /\ \A j \in (h + 1)..i : ~is_cuenta(raw[j])

Procesado == pc \in {"procesado", "analizado", "clasificado"}
Analizado == pc \in {"analizado", "clasificado"}

Cubetas == facturas_pend \cup pagos_huerfanos \cup pagos_excedentes

\* C1: no (account, reference) summary whose key is the sentinel appears in
\* the pending, orphan-payment or overpaid bucket.
C1_CentinelaFueraDeCubetas ==
    \A r \in Cubetas : r.referencia_norm # SIN_REFERENCIA

\* C2: every account introduced by a header row has a reconciliation row;
\* an account without postings has theoretical balance = opening balance
\* and discrepancy = reported balance - opening balance.
C2_TodaCuentaTieneFila ==
    Analizado =>
        \A h \in DOMAIN raw :
            is_cuenta(raw[h]) =>
                \E r \in df_audit :
                    /\ r.meta_codigo = raw[h].c0
                    /\ (\A k \in DOMAIN movs : movs[k].meta_codigo # raw[h].c0)
                         => /\ r.saldo_calculado = r.meta_saldo_inicial
                            /\ r.diferencia = r.saldo_final_aux - r.meta_saldo_inicial

ConDinero(r) ==
    fillna0(to_numeric(r.c4)) # 0 \/ fillna0(to_numeric(r.c5)) # 0

\* C3: every row with a nonzero charge or payment is in exactly one of the
\* postings and the phantom rows.
C3_FantasmasCompletos ==
    Procesado =>
        \A i \in DOMAIN raw :
            ConDinero(raw[i]) =>
                ((\E k \in DOMAIN movs : movs[k].idx = i) # (i \in filas_fantasma))

\* C4: every posting carries the code and the name of one and the same
\* header row, the nearest one above it.
C4_CodigoYNombreDelMismoEncabezado ==
    \A k \in DOMAIN movs :
        \E h \in DOMAIN raw :
            /\ EsEncabezadoDe(h, movs[k].idx)
            /\ movs[k].meta_codigo = raw[h].c0
            /\ movs[k].meta_nombre = raw[h].c2

\* the opening-balance rows of account code c, wherever they stand in the
\* blocks of c
FilasSaldoInicialDe(c) ==
    {i \in DOMAIN raw :
        /\ is_saldo_ini(raw[i])
        /\ \E h \in DOMAIN raw : EsEncabezadoDe(h, i) /\ raw[h].c0 = c}

SaldoInicialEsperado(c) ==
    LET num == {i \in FilasSaldoInicialDe(c) : raw[i].c6.t = "num"}
    IN  IF num = {} THEN 0
        ELSE raw[CHOOSE i \in num : \A j \in num : j <= i].c6.v

\* C5: every posting of an account, and the account's row of resumen,
\* carries the opening balance of cell 6 of the account's opening-balance
\* row (the last numeric one when there are several), before or after the
\* posting; 0 when the account has no such row or the cell is no number.
C5_SaldoInicialDeLaCuenta ==
    Procesado =>
        /\ \A k \in DOMAIN movs :
               ~isna(movs[k].meta_codigo) =>
                   movs[k].meta_saldo_inicial = SaldoInicialEsperado(movs[k].meta_codigo)
        /\ \A r \in resumen :
               r.meta_saldo_inicial = SaldoInicialEsperado(r.meta_codigo)

\* C5 witness: a posting that stands above the numeric opening-balance row
\* of its account and carries that row's value.
C5_Testigo ==
    /\ Procesado
    /\ \E k \in DOMAIN movs :
           /\ \E i \in FilasSaldoInicialDe(movs[k].meta_codigo) :
                  /\ movs[k].idx < i
                  /\ raw[i].c6.t = "num"
                  /\ movs[k].meta_saldo_inicial = raw[i].c6.v
                  /\ raw[i].c6.v # 0
           /\ \E r \in resumen :
                  /\ r.meta_codigo = movs[k].meta_codigo
                  /\ r.meta_saldo_inicial = movs[k].meta_saldo_inicial

UnaSolaCubeta(r) ==
    /\ ~(r \in facturas_pend /\ r \in pagos_huerfanos)
    /\ ~(r \in facturas_pend /\ r \in pagos_excedentes)
    /\ ~(r \in pagos_huerfanos /\ r \in pagos_excedentes)

\* C6 as stated: at most one bucket per summary, and a summary is in none
\* of the three buckets if and only if |net| <= 0.01.
C6_SaldadaEsElComplemento ==
    pc = "clasificado" =>
        \A r \in resumen_referencias :
            /\ UnaSolaCubeta(r)
            /\ (r \notin Cubetas) <=> (Abs(r.saldo_pendiente) <= Tol_001)

\* C6 amended: at most one bucket per summary; with total_charge > 0 a
\* summary is in no bucket if and only if |net| <= 0.01; with
\* total_charge <= 0 it is never pending nor overpaid, and it is an orphan
\* payment exactly when total_charge = 0, total_payment > 0 and the key is
\* not the sentinel, whatever its net.
C6_ClasificacionDisjunta ==
    pc = "clasificado" =>
        \A r \in resumen_referencias :
            /\ UnaSolaCubeta(r)
            /\ r.total_cargos > 0 =>
                   ((r \notin Cubetas) <=> (Abs(r.total_cargos - r.total_abonos) <= Tol_001))
            /\ r.total_cargos <= 0 =>
                   /\ r \notin facturas_pend
                   /\ r \notin pagos_excedentes
                   /\ (r \in pagos_huerfanos) <=>
                          /\ r.total_cargos = 0
                          /\ r.total_abonos > 0
                          /\ r.referencia_norm # SIN_REFERENCIA

\* C6 witness: a charged summary with a nonzero net within 0.01 in no
\* bucket, beside an orphan payment whose net is within 0.01.
C6_Testigo ==
    /\ pc = "clasificado"
    /\ \E r \in resumen_referencias :
           /\ r.total_cargos > 0
           /\ r.saldo_pendiente # 0
           /\ Abs(r.saldo_pendiente) <= Tol_001
           /\ r \notin Cubetas
    /\ \E r \in pagos_huerfanos : Abs(r.saldo_pendiente) <= Tol_001

EsMarcador(r) ==
    /\ ~isna(r)
    /\ upper(strip(r)) \in { <<"N","A","N">>, <<"N","O","N","E">>, <<"N","U","L","L">> }

\* C7: a null reference, one empty after trimming, and the placeholders
\* 'nan', 'none', 'null' in any letter case all get the sentinel key.
C7_SinReferenciaDaCentinela ==
    (pcn = "rellenada" /\ (isna(ref) \/ strip(ref) = <<>> \/ EsMarcador(ref)))
        => referencia_norm = SIN_REFERENCIA

\* an occurrence of F[.]<spaces><digits> in s: F at i, digits from k to e
OcurrenciaPago(s, i, k, e) ==
    /\ i \in DOMAIN s /\ k \in DOMAIN s /\ e \in DOMAIN s
    /\ s[i] = "F" /\ i < k /\ k <= e
    /\ \A j \in (i + 1)..(k - 1) : s[j] = " " \/ (j = i + 1 /\ s[j] = ".")
    /\ \A j \in k..e : s[j] \in Digitos
    /\ (e = Len(s) \/ s[e + 1] \notin Digitos)

\* an occurrence of A<spaces>-<spaces><digits> in s
OcurrenciaFactura(s, i, k, e) ==
    /\ i \in DOMAIN s /\ k \in DOMAIN s /\ e \in DOMAIN s
    /\ s[i] = "A" /\ i < k /\ k <= e
    /\ \E g \in (i + 1)..(k - 1) :
           /\ s[g] = "-"
           /\ \A j \in ((i + 1)..(k - 1)) \ {g} : s[j] = " "
    /\ \A j \in k..e : s[j] \in Digitos
    /\ (e = Len(s) \/ s[e + 1] \notin Digitos)

HayPago(s) == \E i, k, e \in DOMAIN s : OcurrenciaPago(s, i, k, e)
HayFactura(s) == \E i, k, e \in DOMAIN s : OcurrenciaFactura(s, i, k, e)

\* the last digit run of s goes from k to e
UltimaCorrida(s, k, e) ==
    /\ k \in DOMAIN s /\ e \in DOMAIN s /\ k <= e
    /\ \A j \in k..e : s[j] \in Digitos
    /\ (k = 1 \/ s[k - 1] \notin Digitos)
    /\ \A j \in (e + 1)..Len(s) : s[j] \notin Digitos

\* C8: for a non-empty reference the key is the digit run of the (leftmost)
\* F-style occurrence if there is one, even beside an A-style occurrence;
\* else the digit run of the (leftmost) A-style occurrence; else the last
\* digit run; else the trimmed uppercased text.  The example charge and
\* payment texts both get the key 2796.
C8_PrioridadDeReglas ==
    (pcn # "entrada" /\ pcn # "inactivo" /\ ~isna(ref) /\ strip(ref) # <<>>) =>
        LET s == upper(strip(ref))
        IN  /\ HayPago(s) =>
                   \E i, k, e \in DOMAIN s :
                       /\ OcurrenciaPago(s, i, k, e)
                       /\ \A i2, k2, e2 \in DOMAIN s :
                              OcurrenciaPago(s, i2, k2, e2) => i <= i2
                       /\ clave = SubSeq(s, k, e)
            /\ (~HayPago(s) /\ HayFactura(s)) =>
                   \E i, k, e \in DOMAIN s :
                       /\ OcurrenciaFactura(s, i, k, e)
                       /\ \A i2, k2, e2 \in DOMAIN s :
                              OcurrenciaFactura(s, i2, k2, e2) => i <= i2
                       /\ clave = SubSeq(s, k, e)
            /\ (~HayPago(s) /\ ~HayFactura(s) /\ (\E j \in DOMAIN s : s[j] \in Digitos)) =>
                   \E k, e \in DOMAIN s : UltimaCorrida(s, k, e) /\ clave = SubSeq(s, k, e)
            /\ (\A j \in DOMAIN s : s[j] \notin Digitos) => clave = s
            /\ ref \in {FacturaEjemplo, PagoEjemplo} => clave = <<"2", "7", "9", "6">>

\* C8 witness: a reference with an F-style and an A-style occurrence of
\* different numbers, normalised to the F-style number.
C8_Testigo ==
    /\ pcn = "normalizada"
    /\ ~isna(ref)
    /\ LET s == upper(strip(ref))
       IN  /\ \E i, k, e \in DOMAIN s :
                  OcurrenciaPago(s, i, k, e) /\ clave = SubSeq(s, k, e)
           /\ \E i, k, e \in DOMAIN s :
                  OcurrenciaFactura(s, i, k, e) /\ clave # SubSeq(s, k, e) /\ i = 1

MovsDeCodigo(c) == {k \in DOMAIN movs : movs[k].meta_codigo = c}
MovsDeGrupo(r) ==
    {k \in DOMAIN movs :
        movs[k].meta_codigo = r.meta_codigo /\ movs[k].meta_nombre = r.meta_nombre}

\* C9 as stated: saldo_final_aux of an account is the running balance of
\* its posting with the greatest date, whatever the order of its rows.
C9_SaldoDelUltimoPorFecha ==
    \A r \in resumen :
        \A k \in MovsDeCodigo(r.meta_codigo) :
            (/\ ~movs[k].fecha.nat
             /\ \A j \in MovsDeCodigo(r.meta_codigo) \ {k} :
                    ~movs[j].fecha.nat /\ movs[j].fecha.v < movs[k].fecha.v)
                => r.saldo_final_aux = movs[k].saldo_acumulado

\* C9 amended: saldo_final_aux of a row of resumen (one per account code and
\* name) is the running balance of the last posting, in row order of the
\* table, that carries that code and name; it is the balance of the posting
\* with the greatest date when those postings stand in ascending date order.
C9_SaldoDelUltimoEnOrdenDeFilas ==
    \A r \in resumen :
        /\ \E k \in MovsDeGrupo(r) :
               /\ \A j \in MovsDeGrupo(r) : j <= k
               /\ r.saldo_final_aux = movs[k].saldo_acumulado
        /\ (\A j, k \in MovsDeGrupo(r) :
                j < k => (/\ ~movs[j].fecha.nat /\ ~movs[k].fecha.nat
                          /\ movs[j].fecha.v < movs[k].fecha.v))
              => \A k \in MovsDeGrupo(r) :
                     (\A j \in MovsDeGrupo(r) : movs[j].fecha.v <= movs[k].fecha.v)
                         => r.saldo_final_aux = movs[k].saldo_acumulado

\* C9 witness: an account whose last posting row is older than an earlier
\* row of another balance; saldo_final_aux is the last row's balance.
C9_Testigo ==
    /\ Procesado
    /\ \E r \in resumen :
           \E j, k \in MovsDeGrupo(r) :
               /\ j < k
               /\ \A i \in MovsDeGrupo(r) : i <= k
               /\ ~movs[j].fecha.nat /\ ~movs[k].fecha.nat
               /\ movs[k].fecha.v < movs[j].fecha.v
               /\ movs[j].saldo_acumulado # movs[k].saldo_acumulado
               /\ r.saldo_final_aux = movs[k].saldo_acumulado

\* C10: the reconciliation table has at most one row per account code, and
\* its net movements are the sum of charge - payment of the code's postings.
C10_UnaFilaPorCodigo ==
    Analizado =>
        /\ \A r1, r2 \in df_audit : r1.meta_codigo = r2.meta_codigo => r1 = r2
        /\ \A r \in df_audit :
               r.movimientos_netos =
                   AggSum(SelectSeq(movs, LAMBDA x : x.meta_codigo = r.meta_codigo),
                          "saldo_neto")
====
